---- MODULE Spec2Model ----
(***************************************************************************)
(* Model of src/src/UltraDashboard.jsx: the CSV ingestion routine          *)
(* parseCsvToRaces, the ordering routine sortByMonth and the handlers of   *)
(* the UltraDashboard component that own the races list.                   *)
(*                                                                         *)
(* JavaScript strings are TLA+ strings; the string built-ins the code uses *)
(* (split, trim, toLowerCase, Number, localeCompare, indexOf) are computed *)
(* character by character.                                                 *)
(***************************************************************************)
EXTENDS Integers, Sequences, FiniteSets, TLC

VARIABLES
    csvText,            \* argument of the parseCsvToRaces call under study
    csvResult,          \* what that call did: its locals and its outcome
    sortInput,          \* argument of the sortByMonth call under study
    sortOutput,         \* its return value (Undefined before the call)
    races,              \* useState(initialRaces)
    newRaceName,        \* the add-race form's controlled inputs
    newRaceMonth,
    newRaceWebsite,
    newRaceRegistered,
    newRaceFinishTime,
    now,                \* the clock Date.now() reads
    reading,            \* texts of the FileReader reads started and not yet loaded
    events,             \* number of handler invocations so far
    lastOp              \* the last handler invoked and the branch it took

vars == <<csvText, csvResult, sortInput, sortOutput, races, newRaceName,
          newRaceMonth, newRaceWebsite, newRaceRegistered, newRaceFinishTime,
          now, reading, events, lastOp>>

-----------------------------------------------------------------------------
(* JavaScript values and string built-ins                                  *)

\* undefined / a defined value, for locals declared with a bare `let`
Undefined == <<>>
Def(v) == <<v>>

CharAt(s, i) == SubSeq(s, i, i)

Drop(s, n) == SubSeq(s, n + 1, Len(s))

\* WhiteSpace and LineTerminator code points that occur in the inputs
IsWhiteSpace(c) == c \in {" ", "\t", "\r", "\n"}

RECURSIVE TrimStart(_)
TrimStart(s) ==
    IF Len(s) > 0 /\ IsWhiteSpace(CharAt(s, 1)) THEN TrimStart(Drop(s, 1)) ELSE s

RECURSIVE TrimEnd(_)
TrimEnd(s) ==
    IF Len(s) > 0 /\ IsWhiteSpace(CharAt(s, Len(s)))
    THEN TrimEnd(SubSeq(s, 1, Len(s) - 1))
    ELSE s

\* String.prototype.trim
Trim(s) == TrimEnd(TrimStart(s))

\* 1-based position of the first occurrence of character c in s, 0 when absent
CharIndex(s, c) ==
    IF \E i \in 1..Len(s) : CharAt(s, i) = c
    THEN CHOOSE i \in 1..Len(s) :
            CharAt(s, i) = c /\ \A j \in 1..(i - 1) : CharAt(s, j) # c
    ELSE 0

UpperCaseLetters == "ABCDEFGHIJKLMNOPQRSTUVWXYZ"
LowerCaseLetters == "abcdefghijklmnopqrstuvwxyz"

\* the lower-case mapping of the letters A..Z
LowerOf == [c \in {CharAt(UpperCaseLetters, k) : k \in 1..Len(UpperCaseLetters)} |->
              CharAt(LowerCaseLetters, CharIndex(UpperCaseLetters, c))]

LowerChar(c) == IF c \in DOMAIN LowerOf THEN LowerOf[c] ELSE c

RECURSIVE ToLowerCase(_)
\* String.prototype.toLowerCase
ToLowerCase(s) ==
    IF s = "" THEN "" ELSE LowerChar(CharAt(s, 1)) \o ToLowerCase(Drop(s, 1))

RECURSIVE Split(_, _)
\* String.prototype.split with a one-character separator
Split(s, sep) ==
    LET k == CharIndex(s, sep)
    IN  IF k = 0 THEN <<s>>
        ELSE <<SubSeq(s, 1, k - 1)>> \o Split(Drop(s, k), sep)

\* line.replace(/\r$/, "")
StripTrailingCR(line) ==
    IF Len(line) > 0 /\ CharAt(line, Len(line)) = "\r"
    THEN SubSeq(line, 1, Len(line) - 1)
    ELSE line

CharsOf(s) == {CharAt(s, i) : i \in 1..Len(s)}

DecimalDigitChars == CharsOf("0123456789")
HexDigitChars == CharsOf("0123456789abcdefABCDEF")
OctalDigitChars == CharsOf("01234567")
BinaryDigitChars == CharsOf("01")

AllIn(s, chars) == \A i \in 1..Len(s) : CharAt(s, i) \in chars

DecimalDigits(s) == Len(s) > 0 /\ AllIn(s, DecimalDigitChars)

IsSign(c) == c \in {"+", "-"}

ExponentPart(s) ==
    /\ Len(s) >= 2
    /\ CharAt(s, 1) \in {"e", "E"}
    /\ \/ DecimalDigits(Drop(s, 1))
       \/ IsSign(CharAt(s, 2)) /\ DecimalDigits(Drop(s, 2))

DecimalMantissa(s) ==
    \/ DecimalDigits(s)
    \/ \E i \in 1..Len(s) :
          /\ CharAt(s, i) = "."
          /\ LET a == SubSeq(s, 1, i - 1)
                 b == Drop(s, i)
             IN  /\ a = "" \/ DecimalDigits(a)
                 /\ b = "" \/ DecimalDigits(b)
                 /\ a # "" \/ b # ""

StrUnsignedDecimalLiteral(s) ==
    \/ s = "Infinity"
    \/ DecimalMantissa(s)
    \/ \E i \in 1..Len(s) :
          /\ CharAt(s, i) \in {"e", "E"}
          /\ DecimalMantissa(SubSeq(s, 1, i - 1))
          /\ ExponentPart(Drop(s, i - 1))

StrDecimalLiteral(s) ==
    \/ StrUnsignedDecimalLiteral(s)
    \/ Len(s) > 0 /\ IsSign(CharAt(s, 1)) /\ StrUnsignedDecimalLiteral(Drop(s, 1))

NonDecimalIntegerLiteral(s) ==
    /\ Len(s) >= 3
    /\ CharAt(s, 1) = "0"
    /\ \/ CharAt(s, 2) \in {"x", "X"} /\ AllIn(Drop(s, 2), HexDigitChars)
       \/ CharAt(s, 2) \in {"o", "O"} /\ AllIn(Drop(s, 2), OctalDigitChars)
       \/ CharAt(s, 2) \in {"b", "B"} /\ AllIn(Drop(s, 2), BinaryDigitChars)

\* Number.isNaN(Number(s)): StringToNumber skips surrounding white space, reads
\* the empty string as 0 and anything outside StrNumericLiteral as NaN
NumberIsNaN(s) ==
    LET t == Trim(s)
    IN  ~ (t = "" \/ StrDecimalLiteral(t) \/ NonDecimalIntegerLiteral(t))

\* Array.prototype.indexOf: 0-based position of the first equal element, or -1
IndexOf(arr, v) ==
    IF \E i \in 1..Len(arr) : arr[i] = v
    THEN (CHOOSE i \in 1..Len(arr) :
             arr[i] = v /\ \A j \in 1..(i - 1) : arr[j] # v) - 1
    ELSE -1

\* arr[i] for a 0-based index i: undefined outside the array
At(arr, i) == IF i >= 0 /\ i < Len(arr) THEN Def(arr[i + 1]) ELSE Undefined

\* arr[idx] for an index variable that may itself be undefined
AtIdx(arr, idx) == IF idx = Undefined THEN Undefined ELSE At(arr, idx[1])

\* (x || ""), for x a string or undefined
OrEmpty(x) == IF x = Undefined THEN "" ELSE x[1]

-----------------------------------------------------------------------------
(* parseCsvToRaces                                                         *)

nameCandidates ==
    <<"name", "race", "race name", "race_name", "race title", "event", "event name">>

monthCandidates ==
    <<"month", "race month", "month held", "month_of_race", "race month held">>

websiteCandidates == <<"website", "url", "link", "race website", "race url">>

\* text.split("\n").map(strip CR).filter((line) => line.trim().length > 0)
Lines(text) ==
    LET raw == Split(text, "\n")
        stripped == [i \in 1..Len(raw) |-> StripTrailingCR(raw[i])]
    IN  SelectSeq(stripped, LAMBDA line : Len(Trim(line)) > 0)

\* the callback of firstLineCells.some(...)
IsHeaderLike(cell) ==
    LET trimmed == Trim(cell)
    IN  IF trimmed = "" THEN FALSE ELSE NumberIsNaN(trimmed)

\* every in place of some
LooksLikeHeaderEvery(firstLineCells) ==
    \A i \in 1..Len(firstLineCells) : IsHeaderLike(firstLineCells[i])

LooksLikeHeader(firstLineCells) ==
    \E i \in 1..Len(firstLineCells) : IsHeaderLike(firstLineCells[i])

Headers(firstLineCells) ==
    [i \in 1..Len(firstLineCells) |-> ToLowerCase(Trim(firstLineCells[i]))]

\* arr.find((idx) => idx !== -1)
FindFound(arr) ==
    IF \E k \in 1..Len(arr) : arr[k] # -1
    THEN Def(arr[CHOOSE k \in 1..Len(arr) :
                    arr[k] # -1 /\ \A j \in 1..(k - 1) : arr[j] = -1])
    ELSE Undefined

\* the leftmost column that holds any candidate
ResolveIdxLeftmost(candidates, headers) ==
    LET cols == {c \in 1..Len(headers) :
                    \E k \in 1..Len(candidates) : headers[c] = candidates[k]}
    IN  IF cols = {} THEN Undefined
        ELSE Def((CHOOSE c \in cols : \A d \in cols : c <= d) - 1)

\* candidates.map((key) => headers.indexOf(key)).find((idx) => idx !== -1)
ResolveIdx(candidates, headers) ==
    FindFound([k \in 1..Len(candidates) |-> IndexOf(headers, candidates[k])])

\* startIndex = 1 (skip header row) or 0 (first row is data)
StartIndexNoSkip(looksLikeHeader) == 0

StartIndex(looksLikeHeader) == IF looksLikeHeader THEN 1 ELSE 0

\* && in place of ||
SchemaInvalidBoth(nameIdx, monthIdx) ==
    /\ nameIdx = Undefined \/ nameIdx = Def(-1)
    /\ monthIdx = Undefined \/ monthIdx = Def(-1)

\* !nameIdx || !monthIdx
SchemaInvalidFalsy(nameIdx, monthIdx) ==
    \/ nameIdx \in {Undefined, Def(0)}
    \/ monthIdx \in {Undefined, Def(0)}

\* nameIdx == null || nameIdx === -1 || monthIdx == null || monthIdx === -1
SchemaInvalid(nameIdx, monthIdx) ==
    \/ nameIdx = Undefined
    \/ nameIdx = Def(-1)
    \/ monthIdx = Undefined
    \/ monthIdx = Def(-1)

\* without the trim
RequiredCellUntrimmed(cells, idx) == OrEmpty(AtIdx(cells, idx))

\* (cells[idx] || "").trim()
RequiredCell(cells, idx) == Trim(OrEmpty(AtIdx(cells, idx)))

\* websiteIdx != null && websiteIdx !== -1 && cells[websiteIdx] ? trim : ""
WebsiteCell(cells, websiteIdx) ==
    IF /\ websiteIdx # Undefined
       /\ websiteIdx # Def(-1)
       /\ OrEmpty(AtIdx(cells, websiteIdx)) # ""
    THEN Trim(AtIdx(cells, websiteIdx)[1])
    ELSE ""

\* the callback of lines.slice(startIndex).map(...); t is what Date.now() reads
ParseLine(line, index, nameIdx, monthIdx, websiteIdx, t) ==
    LET cells == Split(line, ",")
    IN  [id         |-> t + index,
         name       |-> RequiredCell(cells, nameIdx),
         month      |-> RequiredCell(cells, monthIdx),
         website    |-> WebsiteCell(cells, websiteIdx),
         registered |-> FALSE,
         finishTime |-> ""]

\* || in place of &&
KeepRaceEither(race) == race.name # "" \/ race.month # ""

\* the callback of parsed.filter(...)
KeepRace(race) == race.name # "" /\ race.month # ""

NotCalled ==
    [state |-> "pending", lines |-> <<>>, looksLikeHeader |-> Undefined,
     nameIdx |-> Undefined, monthIdx |-> Undefined, websiteIdx |-> Undefined,
     startIndex |-> Undefined, value |-> <<>>]

\* clock[i] is what Date.now() reads in the map callback of data line i (0-based)
parseCsvToRaces(text, clock) ==
    LET lines == Lines(text)
    IN  IF Len(lines) = 0
        THEN [NotCalled EXCEPT !.state = "returned", !.lines = lines]
        ELSE
          LET firstLineCells == Split(lines[1], ",")
              looksLikeHeader == LooksLikeHeader(firstLineCells)
              headers == Headers(firstLineCells)
              nameIdx == IF looksLikeHeader
                         THEN ResolveIdx(nameCandidates, headers) ELSE Def(1)
              monthIdx == IF looksLikeHeader
                          THEN ResolveIdx(monthCandidates, headers) ELSE Def(2)
              websiteIdx == IF looksLikeHeader
                            THEN ResolveIdx(websiteCandidates, headers) ELSE Def(3)
              startIndex == StartIndex(looksLikeHeader)
              locals == [state |-> "thrown", lines |-> lines,
                         looksLikeHeader |-> Def(looksLikeHeader),
                         nameIdx |-> nameIdx, monthIdx |-> monthIdx,
                         websiteIdx |-> websiteIdx,
                         startIndex |-> Def(startIndex), value |-> <<>>]
          IN  IF SchemaInvalid(nameIdx, monthIdx)
              THEN locals
              ELSE
                LET sliced == Drop(lines, startIndex)
                    parsed == [i \in 1..Len(sliced) |->
                                 ParseLine(sliced[i], i - 1, nameIdx, monthIdx,
                                           websiteIdx, clock[i - 1])]
                IN  [locals EXCEPT !.state = "returned",
                                   !.value = SelectSeq(parsed, KeepRace)]

\* a clock that does not advance during one call
SteadyClock(text, t) == [i \in 0..Len(Split(text, "\n")) |-> t]

-----------------------------------------------------------------------------
(* sortByMonth                                                             *)

monthOrder ==
    <<"January", "February", "March", "April", "May", "June", "July",
      "August", "September", "October", "November", "December">>

\* Number.MAX_SAFE_INTEGER is 2^53 - 1; the comparator only tests it for
\* equality and subtracts an index below 12 from it or it from such an index,
\* which the largest integer of the model checker does the same way
MAX_SAFE_INTEGER == 2147483647

\* characters in the order of their primary collation weight: white space,
\* punctuation, symbols, digits, letters (a letter's two cases share a weight)
CollationOrder ==
    "\t\n\r _-,;:!?.'()[]{}@*/&#%^+<=>|~$0123456789abcdefghijklmnopqrstuvwxyz"

PrimaryOf == [c \in CharsOf(CollationOrder) |-> CharIndex(CollationOrder, c)]

PrimaryWeight(c) ==
    LET l == LowerChar(c) IN IF l \in DOMAIN PrimaryOf THEN PrimaryOf[l] ELSE 0

\* at the tertiary level a lower-case letter precedes its upper-case form
TertiaryWeight(c) == IF c \in DOMAIN LowerOf THEN 1 ELSE 0

PrimaryKey(s) == [i \in 1..Len(s) |-> PrimaryWeight(CharAt(s, i))]

TertiaryKey(s) == [i \in 1..Len(s) |-> TertiaryWeight(CharAt(s, i))]

\* lexicographic comparison of two sort keys: -1, 0 or 1
CompareKeys(ka, kb) ==
    LET n == IF Len(ka) < Len(kb) THEN Len(ka) ELSE Len(kb)
        diff == {i \in 1..n : ka[i] # kb[i]}
    IN  IF diff = {}
        THEN (IF Len(ka) < Len(kb) THEN -1 ELSE IF Len(ka) > Len(kb) THEN 1 ELSE 0)
        ELSE LET i == CHOOSE i \in diff : \A j \in diff : i <= j
             IN  IF ka[i] < kb[i] THEN -1 ELSE 1

\* String.prototype.localeCompare under the default collation: primary
\* weights decide first, case only between strings equal up to case
LocaleCompare(a, b) ==
    LET p == CompareKeys(PrimaryKey(a), PrimaryKey(b))
    IN  IF p # 0 THEN p ELSE CompareKeys(TertiaryKey(a), TertiaryKey(b))

\* the index without the replacement of -1
MonthIndexRaw(race) == IndexOf(monthOrder, Trim(race.month))

\* ai === -1 ? Number.MAX_SAFE_INTEGER : ai
MonthIndex(race) ==
    LET i == IndexOf(monthOrder, Trim(race.month))
    IN  IF i = -1 THEN MAX_SAFE_INTEGER ELSE i

\* the comparator passed to sort
CompareRaces(a, b) ==
    LET aIndex == MonthIndex(a)
        bIndex == MonthIndex(b)
    IN  IF aIndex # bIndex THEN aIndex - bIndex
        ELSE LocaleCompare(a.name, b.name)

\* x put behind the last element of the sorted array that the comparator does
\* not place after it
InsertSorted(sorted, x) ==
    LET after == {k \in 1..Len(sorted) : CompareRaces(sorted[k], x) > 0}
        at == IF after = {} THEN Len(sorted) + 1
              ELSE CHOOSE k \in after : \A j \in after : k <= j
    IN  SubSeq(sorted, 1, at - 1) \o <<x>> \o SubSeq(sorted, at, Len(sorted))

RECURSIVE SortFirst(_, _)
\* Array.prototype.sort of the first k elements: a stable sort under the
\* comparator
SortFirst(arr, k) ==
    IF k = 0 THEN <<>> ELSE InsertSorted(SortFirst(arr, k - 1), arr[k])

\* [...races].sort(comparator)
sortByMonth(list) == SortFirst(list, Len(list))

-----------------------------------------------------------------------------
(* The UltraDashboard component                                            *)

\* the name of the second race is written with an en dash in the source; the
\* hyphen stands for it here (both are punctuation to the collation)
initialRaces ==
    <<[id |-> 1, name |-> "Black Mountain 100", month |-> "March",
       website |-> "https://example.com/black-mountain-100",
       registered |-> TRUE, finishTime |-> "26:15:42"],
      [id |-> 2, name |-> "UTMB - Chamonix", month |-> "August",
       website |-> "https://utmb.world",
       registered |-> FALSE, finishTime |-> ""],
      [id |-> 3, name |-> "Crazy Mountain 100", month |-> "July",
       website |-> "https://example.com/crazy-mountain-100",
       registered |-> FALSE, finishTime |-> ""]>>

\* Date.now() counts milliseconds since 1970: the clock starts past the ids
\* of initialRaces
EpochStart == Len(initialRaces) + 1

\* race.id === id ? { ...race, registered: !race.registered } : race
ToggledIf(race, id) ==
    IF race.id = id THEN [race EXCEPT !.registered = ~ race.registered] ELSE race

\* race.id === id ? { ...race, finishTime: value } : race
FinishTimeSetIf(race, id, value) ==
    IF race.id = id THEN [race EXCEPT !.finishTime = value] ELSE race

\* prev.filter((race) => race.id !== id)
WithoutId(list, id) == SelectSeq(list, LAMBDA race : race.id # id)

\* the record handleAddRace builds from the form
NewRace(t) ==
    [id         |-> t,
     name       |-> Trim(newRaceName),
     month      |-> Trim(newRaceMonth),
     website    |-> Trim(newRaceWebsite),
     registered |-> newRaceRegistered,
     finishTime |-> Trim(newRaceFinishTime)]

\* the new record put in front, without the sort
WithRaceInFront(prev, race) == <<race>> \o prev

\* sortByMonth([race, ...prev])
WithRace(prev, race) == sortByMonth(<<race>> \o prev)

-----------------------------------------------------------------------------
(* Inputs                                                                  *)

MaxCells == 3
MaxLines == 2

RECURSIVE Join(_, _)
\* Array.prototype.join
Join(parts, sep) ==
    IF Len(parts) = 0 THEN ""
    ELSE IF Len(parts) = 1 THEN parts[1]
    ELSE parts[1] \o sep \o Join(Tail(parts), sep)

\* cells of data lines: empty, blank, numeric, text to be trimmed
DataCells == {"", " ", "1", "Ab "}

\* cells of a first line: synonyms of the three fields in mixed case and
\* padding, and blank, numeric and text cells that are no synonym
FirstCells == {"race", " Name ", "Month", "url", " ", "1", "Ab "}

RowsOver(cells) == UNION {[1..n -> cells] : n \in 1..MaxCells}

LinesOver(cells) == {Join(row, ",") : row \in RowsOver(cells)}

\* the inputs of the smoke tests
sampleHeaderless ==
    Join(<<"1,Moggollon 100,September,https://example.com/moggollon",
           "2,Falling Water 100k,April,https://example.com/falling-water",
           "">>, "\n")

sampleHeadered == Join(<<"race,month,website", "UTMB,August,https://utmb.world", "">>, "\n")

sampleVerboseHeadered ==
    Join(<<"Race Name,Month Held,URL",
           "Spartathlon,September,https://example.com/spartathlon", "">>, "\n")

headersOnly == Join(<<"race,month,website">>, "\n")

SmokeTexts == {sampleHeaderless, sampleHeadered, sampleVerboseHeadered, headersOnly}

\* line endings: LF, or CRLF
LineBreaks == {"\n", "\r\n"}

FirstLines == LinesOver(FirstCells)

DataLines == LinesOver(DataCells)

RECURSIVE DataBlocks(_)
\* n data lines, each behind a line break
DataBlocks(n) ==
    IF n = 0 THEN {""}
    ELSE {b \o br \o l : b \in DataBlocks(n - 1), br \in LineBreaks, l \in DataLines}

\* the empty text, the smoke tests' texts, or a first line followed by up to
\* MaxLines - 1 data lines
IsInput(text) ==
    \/ text \in {""} \cup SmokeTexts
    \/ \E f \in FirstLines, n \in 0..(MaxLines - 1) :
          \E b \in DataBlocks(n) : text = f \o b

-----------------------------------------------------------------------------
(* The parser as a pure function: one call on one input                    *)

\* the dashboard as constructed, for the calls studied on their own
DashboardIdle ==
    /\ races = initialRaces
    /\ newRaceName = ""
    /\ newRaceMonth = ""
    /\ newRaceWebsite = ""
    /\ newRaceRegistered = FALSE
    /\ newRaceFinishTime = ""
    /\ now = EpochStart
    /\ reading = <<>>
    /\ events = 0
    /\ lastOp = "none"

InitParse ==
    /\ IsInput(csvText)
    /\ csvResult = NotCalled
    /\ sortInput = <<>>
    /\ sortOutput = Undefined
    /\ DashboardIdle

CallParse ==
    /\ csvResult.state = "pending"
    /\ csvResult' = parseCsvToRaces(csvText, SteadyClock(csvText, now))
    /\ UNCHANGED <<csvText, sortInput, sortOutput, races, newRaceName,
                   newRaceMonth, newRaceWebsite, newRaceRegistered,
                   newRaceFinishTime, now, reading, events, lastOp>>

NextParse == CallParse

SpecParse == InitParse /\ [][NextParse]_vars

-----------------------------------------------------------------------------
(* sortByMonth as a pure function: one call on one batch                   *)

MaxBatch == 3

Race(id, name, month) ==
    [id |-> id, name |-> name, month |-> month, website |-> "",
     registered |-> FALSE, finishTime |-> ""]

\* titles that differ in case, in length and in their first letter
SortNames == {"Ab", "ab", "b"}

\* the first month, a later month, a month to be trimmed, a month in the
\* wrong case, no month
SortMonths == {"January", "March", " March", "march", ""}

\* batches of up to MaxBatch records; a record's id is its position
Batches ==
    UNION {{[k \in 1..n |-> Race(k, names[k], months[k])] :
               names \in [1..n -> SortNames], months \in [1..n -> SortMonths]} :
           n \in 0..MaxBatch}

InitSort ==
    /\ sortInput \in Batches
    /\ sortOutput = Undefined
    /\ csvText = ""
    /\ csvResult = NotCalled
    /\ DashboardIdle

CallSort ==
    /\ sortOutput = Undefined
    /\ sortOutput' = Def(sortByMonth(sortInput))
    /\ UNCHANGED <<csvText, csvResult, sortInput, races, newRaceName,
                   newRaceMonth, newRaceWebsite, newRaceRegistered,
                   newRaceFinishTime, now, reading, events, lastOp>>

NextSort == CallSort

SpecSort == InitSort /\ [][NextSort]_vars

-----------------------------------------------------------------------------
(* The handlers of the dashboard                                           *)

MaxEvents == 5
MaxTicks == 2
MaxRaces == 4
MaxReading == 1

\* what the user types into the form and into a row's finish-time input
NameInputs == {" ", "Ab ", "Dx"}
MonthInputs == {" ", "July", " May", "Foo"}
WebsiteInputs == {" https://x "}
FinishTimeInputs == {"30:00:00 "}

\* the files the user uploads: two records in descending month order, a
\* header row alone, a header row without the required columns, a blank file
UploadTexts ==
    {Join(<<"race,month", "Dx,May", "Ab,March">>, "\n"),
     headersOnly,
     "color,size,price",
     "\n"}

\* the readings of Date.now() in the map callbacks of one parse that starts
\* at time t: one for each line of the text, never decreasing
Clocks(text, t) ==
    {c \in [0..(Len(Split(text, "\n")) - 1) -> t..(EpochStart + MaxTicks)] :
        \A i, j \in DOMAIN c : i <= j => c[i] <= c[j]}

Init ==
    /\ csvText = ""
    /\ csvResult = NotCalled
    /\ sortInput = <<>>
    /\ sortOutput = Undefined
    /\ DashboardIdle

Handled(op) ==
    /\ events < MaxEvents
    /\ events' = events + 1
    /\ lastOp' = op
    /\ UNCHANGED <<csvText, csvResult, sortInput, sortOutput>>

\* the clock advances
Tick ==
    /\ now < EpochStart + MaxTicks
    /\ now' = now + 1
    /\ UNCHANGED <<csvText, csvResult, sortInput, sortOutput, races, newRaceName,
                   newRaceMonth, newRaceWebsite, newRaceRegistered,
                   newRaceFinishTime, reading, events, lastOp>>

SetNewRaceName ==
    \E v \in NameInputs :
        /\ Handled("setNewRaceName")
        /\ newRaceName' = v
        /\ UNCHANGED <<races, newRaceMonth, newRaceWebsite, newRaceRegistered,
                       newRaceFinishTime, now, reading>>

SetNewRaceMonth ==
    \E v \in MonthInputs :
        /\ Handled("setNewRaceMonth")
        /\ newRaceMonth' = v
        /\ UNCHANGED <<races, newRaceName, newRaceWebsite, newRaceRegistered,
                       newRaceFinishTime, now, reading>>

SetNewRaceWebsite ==
    \E v \in WebsiteInputs :
        /\ Handled("setNewRaceWebsite")
        /\ newRaceWebsite' = v
        /\ UNCHANGED <<races, newRaceName, newRaceMonth, newRaceRegistered,
                       newRaceFinishTime, now, reading>>

\* the checkbox reports the opposite of what it shows
SetNewRaceRegistered ==
    /\ Handled("setNewRaceRegistered")
    /\ newRaceRegistered' = ~ newRaceRegistered
    /\ UNCHANGED <<races, newRaceName, newRaceMonth, newRaceWebsite,
                   newRaceFinishTime, now, reading>>

SetNewRaceFinishTime ==
    \E v \in FinishTimeInputs :
        /\ Handled("setNewRaceFinishTime")
        /\ newRaceFinishTime' = v
        /\ UNCHANGED <<races, newRaceName, newRaceMonth, newRaceWebsite,
                       newRaceRegistered, now, reading>>

\* a row's checkbox calls the handler with the id of the row's race
HandleToggleRegistered ==
    \E k \in 1..Len(races) :
        /\ Handled("handleToggleRegistered")
        /\ races' = [j \in 1..Len(races) |-> ToggledIf(races[j], races[k].id)]
        /\ UNCHANGED <<newRaceName, newRaceMonth, newRaceWebsite,
                       newRaceRegistered, newRaceFinishTime, now, reading>>

HandleFinishTimeChange ==
    \E k \in 1..Len(races), value \in FinishTimeInputs :
        /\ Handled("handleFinishTimeChange")
        /\ races' = [j \in 1..Len(races) |->
                        FinishTimeSetIf(races[j], races[k].id, value)]
        /\ UNCHANGED <<newRaceName, newRaceMonth, newRaceWebsite,
                       newRaceRegistered, newRaceFinishTime, now, reading>>

HandleDeleteRace ==
    \E k \in 1..Len(races) :
        /\ Handled("handleDeleteRace")
        /\ races' = WithoutId(races, races[k].id)
        /\ UNCHANGED <<newRaceName, newRaceMonth, newRaceWebsite,
                       newRaceRegistered, newRaceFinishTime, now, reading>>

\* if (!newRaceName.trim() || !newRaceMonth.trim()) return;
HandleAddRaceIgnored ==
    /\ Trim(newRaceName) = "" \/ Trim(newRaceMonth) = ""
    /\ Handled("handleAddRace")
    /\ UNCHANGED <<races, newRaceName, newRaceMonth, newRaceWebsite,
                   newRaceRegistered, newRaceFinishTime, now, reading>>

HandleAddRaceAdded ==
    /\ Trim(newRaceName) # "" /\ Trim(newRaceMonth) # ""
    /\ Len(races) < MaxRaces
    /\ Handled("handleAddRace")
    /\ races' = WithRace(races, NewRace(now))
    /\ newRaceName' = ""
    /\ newRaceMonth' = ""
    /\ newRaceWebsite' = ""
    /\ newRaceRegistered' = FALSE
    /\ newRaceFinishTime' = ""
    /\ UNCHANGED <<now, reading>>

HandleAddRace == HandleAddRaceIgnored \/ HandleAddRaceAdded

\* const file = event.target.files?.[0]; if (!file) return;
HandleCsvUploadNoFile ==
    /\ Handled("handleCsvUpload")
    /\ UNCHANGED <<races, newRaceName, newRaceMonth, newRaceWebsite,
                   newRaceRegistered, newRaceFinishTime, now, reading>>

\* reader.readAsText(file): the text arrives later, in the onload callback
HandleCsvUploadFile ==
    \E text \in UploadTexts :
        /\ Len(reading) < MaxReading
        /\ Handled("handleCsvUpload")
        /\ reading' = Append(reading, text)
        /\ UNCHANGED <<races, newRaceName, newRaceMonth, newRaceWebsite,
                       newRaceRegistered, newRaceFinishTime, now>>

HandleCsvUpload == HandleCsvUploadNoFile \/ HandleCsvUploadFile

\* the return on an empty result left out
UploadedUnguarded(prev, parsed) ==
    IF parsed.state = "returned" THEN sortByMonth(parsed.value) ELSE prev

\* try { parsed = parseCsvToRaces(text); if (parsed.length === 0) return;
\*       setRaces(sortByMonth(parsed)); } catch (err) { alert(...) }
Uploaded(prev, parsed) ==
    IF parsed.state = "returned" /\ Len(parsed.value) > 0
    THEN sortByMonth(parsed.value)
    ELSE prev

\* reader.onload of any of the reads in flight; csvText and csvResult keep
\* the callback's text and the outcome of its call of parseCsvToRaces
ReaderOnLoad ==
    \E i \in 1..Len(reading) :
        \E clock \in Clocks(reading[i], now) :
            LET parsed == parseCsvToRaces(reading[i], clock)
            IN  /\ events < MaxEvents
                /\ events' = events + 1
                /\ lastOp' = "onload"
                /\ csvText' = reading[i]
                /\ csvResult' = parsed
                /\ reading' = SubSeq(reading, 1, i - 1) \o Drop(reading, i)
                /\ now' = clock[Len(Split(reading[i], "\n")) - 1]
                /\ races' = Uploaded(races, parsed)
                /\ UNCHANGED <<sortInput, sortOutput, newRaceName, newRaceMonth,
                               newRaceWebsite, newRaceRegistered,
                               newRaceFinishTime>>

Next ==
    \/ Tick
    \/ SetNewRaceName
    \/ SetNewRaceMonth
    \/ SetNewRaceWebsite
    \/ SetNewRaceRegistered
    \/ SetNewRaceFinishTime
    \/ HandleToggleRegistered
    \/ HandleFinishTimeChange
    \/ HandleDeleteRace
    \/ HandleAddRace
    \/ HandleCsvUpload
    \/ ReaderOnLoad

Spec == Init /\ [][Next]_vars

-----------------------------------------------------------------------------
(* Properties of sortByMonth                                               *)

\* rank of a record: the position of its trimmed category in January ..
\* December, and 12 for every other category
RankOf(r) ==
    IF \E k \in 1..12 : monthOrder[k] = Trim(r.month)
    THEN (CHOOSE k \in 1..12 : monthOrder[k] = Trim(r.month)) - 1
    ELSE 12

\* title order of the comparator: a does not come after b
TitleLeq(a, b) == LocaleCompare(a, b) <= 0

SortedByRankThenTitle(list) ==
    \A k \in 1..(Len(list) - 1) :
        /\ RankOf(list[k]) <= RankOf(list[k + 1])
        /\ RankOf(list[k]) = RankOf(list[k + 1])
              => TitleLeq(list[k].name, list[k + 1].name)

\* the records of a list with their multiplicities
BagOf(list) == [r \in {list[k] : k \in 1..Len(list)} |->
                   Cardinality({k \in 1..Len(list) : list[k] = r})]

\* C8: the result of sortByMonth holds the records of the batch, every
\* adjacent pair in it has non-decreasing rank and, at equal rank,
\* non-decreasing title; every category outside January .. December has
\* the one rank 12, so those records form the last block
C8_SortedByRankThenTitle ==
    sortOutput # Undefined =>
        /\ BagOf(sortOutput[1]) = BagOf(sortInput)
        /\ SortedByRankThenTitle(sortOutput[1])
        /\ \A j, k \in 1..Len(sortOutput[1]) :
              RankOf(sortOutput[1][j]) = 12 /\ RankOf(sortOutput[1][k]) < 12 => k < j

\* a batch given with an unknown category first, then two records of one
\* month in descending title order, has been sorted
C8_Witness ==
    /\ sortOutput # Undefined
    /\ Len(sortInput) = 3
    /\ RankOf(sortInput[1]) = 12
    /\ RankOf(sortInput[2]) = 2 /\ RankOf(sortInput[3]) = 2
    /\ ~ TitleLeq(sortInput[2].name, sortInput[3].name)
    /\ sortOutput[1] = <<sortInput[3], sortInput[2], sortInput[1]>>

-----------------------------------------------------------------------------
(* Properties of parseCsvToRaces                                           *)

Called == csvResult.state # "pending"
Raised == csvResult.state = "thrown"
Returned == csvResult.state = "returned"

\* the non-blank lines of the input, as the call split them, and the cells
\* of the first of them
InputLines == csvResult.lines
FirstCellsOfInput == Split(InputLines[1], ",")

\* the cell of a line at a 0-based position after trimming; a missing cell
\* counts as empty
TrimmedCell(line, pos) ==
    LET cells == Split(line, ",")
    IN  IF pos >= 0 /\ pos < Len(cells) THEN Trim(cells[pos + 1]) ELSE ""

\* the names in the header row: its cells, trimmed and lower-cased
HeaderNames ==
    LET cells == FirstCellsOfInput
    IN  {ToLowerCase(Trim(cells[c])) : c \in 1..Len(cells)}

\* a synonym of the list occurs in the header row
HeaderHas(candidates) ==
    LET names == HeaderNames
    IN  \E k \in 1..Len(candidates) : candidates[k] \in names

Headered == csvResult.looksLikeHeader = Def(TRUE)
Headerless == csvResult.looksLikeHeader = Def(FALSE)

\* index,title,category,reference with a numeric index, a title and a category
Positional(line) ==
    LET cells == Split(line, ",")
    IN  /\ Len(cells) = 4
        /\ Trim(cells[1]) # "" /\ ~ NumberIsNaN(cells[1])
        /\ Trim(cells[2]) # ""
        /\ Trim(cells[3]) # ""

\* C1: an input whose lines all have the positional form
\* index,title,category,reference is parsed without an error into one record
\* per line, with title, category and reference link the trimmed cells 1, 2, 3
C1_PositionalRowsParsed ==
    (/\ Called
     /\ Len(InputLines) > 0
     /\ \A i \in 1..Len(InputLines) : Positional(InputLines[i]))
    => /\ Returned
       /\ Len(csvResult.value) = Len(InputLines)
       /\ \A i \in 1..Len(InputLines) :
             /\ csvResult.value[i].name = TrimmedCell(InputLines[i], 1)
             /\ csvResult.value[i].month = TrimmedCell(InputLines[i], 2)
             /\ csvResult.value[i].website = TrimmedCell(InputLines[i], 3)

\* C2: on a headered input, a header row without a title synonym or without
\* a category synonym makes the call raise and return no record; a header
\* row with both and without a reference synonym does not raise, and every
\* record then has an empty reference link
C2_MissingRequiredColumnRaises ==
    (Called /\ Headered) =>
        /\ (~ HeaderHas(nameCandidates) \/ ~ HeaderHas(monthCandidates))
              => Raised /\ csvResult.value = <<>>
        /\ (/\ HeaderHas(nameCandidates)
            /\ HeaderHas(monthCandidates)
            /\ ~ HeaderHas(websiteCandidates))
              => /\ Returned
                 /\ \A i \in 1..Len(csvResult.value) : csvResult.value[i].website = ""

\* the header row names a title column and no category column, and the
\* call raised
C2_Witness ==
    /\ Raised
    /\ HeaderHas(nameCandidates)
    /\ ~ HeaderHas(monthCandidates)

\* C3 as stated: whenever the call raises, neither the title column nor the
\* category column is resolved
C3_RaisesOnlyWhenNeitherResolved ==
    Raised => csvResult.nameIdx = Undefined /\ csvResult.monthIdx = Undefined

\* C3: whenever the call raises, the input is headered and its header row
\* lacks a title synonym or lacks a category synonym (one of the two may
\* be present)
C3_RaisesOnlyWhenOneUnresolved ==
    Raised =>
        /\ Headered
        /\ ~ HeaderHas(nameCandidates) \/ ~ HeaderHas(monthCandidates)

\* the header row names a category column and no title column, and the
\* call raised
C3_Witness ==
    /\ Raised
    /\ ~ HeaderHas(nameCandidates)
    /\ HeaderHas(monthCandidates)
    /\ csvResult.monthIdx # Undefined

\* a header cell is, up to case, a synonym of the list
IsSynonym(candidates, cell) ==
    LET name == ToLowerCase(cell)
    IN  \E k \in 1..Len(candidates) : candidates[k] = name

ValidDataLines ==
    {i \in (csvResult.startIndex[1] + 1)..Len(InputLines) :
        /\ TrimmedCell(InputLines[i], csvResult.nameIdx[1]) # ""
        /\ TrimmedCell(InputLines[i], csvResult.monthIdx[1]) # ""}

\* C5: when the title and category columns are resolved, the number of
\* records is the number of data lines whose title and category cells are
\* both non-empty after trimming
C5_RecordCount ==
    (Returned /\ Len(InputLines) > 0) =>
        Len(csvResult.value) = Cardinality(ValidDataLines)

\* two data lines, one kept and one dropped
C5_Witness ==
    /\ Returned
    /\ Len(InputLines) > 0
    /\ Len(InputLines) - csvResult.startIndex[1] = 2
    /\ Len(csvResult.value) = 1
    /\ Cardinality(ValidDataLines) = 1

\* C6: every record has a title and a category that are non-empty after
\* trimming and are the trimmed cells of one data line
C6_RecordsHaveTitleAndCategory ==
    Called =>
        \A k \in 1..Len(csvResult.value) :
            LET r == csvResult.value[k]
            IN  /\ r.name # "" /\ Trim(r.name) = r.name
                /\ r.month # "" /\ Trim(r.month) = r.month
                /\ \E i \in (csvResult.startIndex[1] + 1)..Len(InputLines) :
                      /\ r.name = TrimmedCell(InputLines[i], csvResult.nameIdx[1])
                      /\ r.month = TrimmedCell(InputLines[i], csvResult.monthIdx[1])

\* a data line whose title cell is blank and whose category cell is not
\* was dropped, and the line before it was kept
C6_Witness ==
    /\ Returned
    /\ Len(InputLines) = 2
    /\ Len(csvResult.value) = 1
    /\ LET cells == Split(InputLines[2], ",")
       IN  /\ Len(cells) >= 3
           /\ cells[csvResult.nameIdx[1] + 1] = " "
           /\ TrimmedCell(InputLines[2], csvResult.monthIdx[1]) # ""

\* the column the synonym list selects: of the first synonym that occurs in
\* the header row, the leftmost column holding it
SynonymColumn(candidates) ==
    LET hdr == [c \in 1..Len(FirstCellsOfInput) |->
                   ToLowerCase(Trim(FirstCellsOfInput[c]))]
        present == {k \in 1..Len(candidates) :
                       \E c \in 1..Len(hdr) : hdr[c] = candidates[k]}
    IN  IF present = {} THEN Undefined
        ELSE LET k == CHOOSE k \in present : \A j \in present : k <= j
                 cols == {c \in 1..Len(hdr) : hdr[c] = candidates[k]}
             IN  Def((CHOOSE c \in cols : \A d \in cols : c <= d) - 1)

\* C7: on a headered input each of the three indices is the column of the
\* first synonym, in the order of that field's list, that occurs in the
\* header row, also when a later synonym stands in a column to its left
C7_SynonymPriority ==
    (Called /\ Headered) =>
        /\ csvResult.nameIdx = SynonymColumn(nameCandidates)
        /\ csvResult.monthIdx = SynonymColumn(monthCandidates)
        /\ csvResult.websiteIdx = SynonymColumn(websiteCandidates)

\* a "race" column stands left of a "name" column: the title is read from
\* the "name" column
C7_Witness ==
    /\ Returned
    /\ Headered
    /\ Len(FirstCellsOfInput) = 3
    /\ ToLowerCase(Trim(FirstCellsOfInput[1])) = "race"
    /\ ToLowerCase(Trim(FirstCellsOfInput[2])) = "name"
    /\ csvResult.nameIdx = Def(1)
    /\ Len(csvResult.value) = 1
    /\ csvResult.value[1].name = TrimmedCell(InputLines[2], 1)
    /\ csvResult.value[1].name # TrimmedCell(InputLines[2], 0)

\* C9: a header row that names a title and a category column, with no data
\* line behind it, gives zero records and no error; an input without a
\* non-blank line gives zero records, and neither the header detection nor
\* the resolution of the columns has run
C9_HeaderOnlyAndEmptyInput ==
    Called =>
        /\ (/\ Len(InputLines) = 1
            /\ Headered
            /\ HeaderHas(nameCandidates)
            /\ HeaderHas(monthCandidates))
              => Returned /\ csvResult.value = <<>>
        /\ Len(InputLines) = 0
              => /\ Returned
                 /\ csvResult.value = <<>>
                 /\ csvResult.looksLikeHeader = Undefined
                 /\ csvResult.nameIdx = Undefined
                 /\ csvResult.monthIdx = Undefined
                 /\ csvResult.startIndex = Undefined

\* the header row race,month,website alone
C9_Witness ==
    /\ Returned
    /\ csvText = headersOnly
    /\ csvResult.value = <<>>
    /\ csvResult.nameIdx = Def(0)

-----------------------------------------------------------------------------
(* Properties of handleAddRace                                             *)

\* a step of handleAddRace
AddStep == lastOp' = "handleAddRace" /\ events' = events + 1

\* C10: a step of handleAddRace with a name and a month that are non-empty
\* after trimming leaves a list that holds every previous record and the new
\* one and is sorted by rank, then title; with an empty name or month it
\* leaves the list as it was
C10_AddKeepsListSorted ==
    [][AddStep =>
          IF Trim(newRaceName) # "" /\ Trim(newRaceMonth) # ""
          THEN /\ Len(races') = Len(races) + 1
               /\ BagOf(races') = BagOf(<<NewRace(now)>> \o races)
               /\ SortedByRankThenTitle(races')
          ELSE races' = races]_vars

\* a race of May was added to the three initial races: it stands second,
\* between the race of March and the race of July
C10_Witness ==
    /\ lastOp = "handleAddRace"
    /\ Len(races) = 4
    /\ races[1].id = 1
    /\ races[2].id = now /\ races[2].month = "May"
    /\ races[3].id = 3
    /\ races[4].id = 2
    /\ newRaceName = "" /\ newRaceMonth = ""

-----------------------------------------------------------------------------
(* Properties of the dashboard's list                                      *)

\* the record shown as "Next race", races[0], is of minimal rank
FirstIsNext(list) ==
    \A k \in 1..Len(list) : RankOf(list[1]) <= RankOf(list[k])

\* C11: in every reachable state the races list is sorted under the
\* month-rank/title comparator, and so its first element, the one shown as
\* "Next race", is a record of minimal rank
C11_RacesAlwaysSorted ==
    /\ SortedByRankThenTitle(races)
    /\ FirstIsNext(races)

\* C12: in every reachable state the records of the races list have pairwise
\* distinct identifiers, whatever non-decreasing values Date.now() returns
C12_IdsDistinct ==
    \A i, j \in 1..Len(races) : i # j => races[i].id # races[j].id

-----------------------------------------------------------------------------
(* Properties of handleCsvUpload                                           *)

\* a step of reader.onload
LoadStep == lastOp' = "onload" /\ events' = events + 1

\* C13: when an upload completes, the races list becomes the parsed records
\* in sorted order if the parse returned at least one record; if the parse
\* raised or returned no record, the list stays as it was, flags and finish
\* times included
C13_UploadReplacesOrKeeps ==
    [][LoadStep =>
          IF csvResult'.state = "returned" /\ Len(csvResult'.value) > 0
          THEN /\ BagOf(races') = BagOf(csvResult'.value)
               /\ SortedByRankThenTitle(races')
          ELSE races' = races]_vars

\* an upload of two records in descending month order has replaced the list
\* by the two in ascending order
C13_Witness ==
    /\ lastOp = "onload"
    /\ csvResult.state = "returned"
    /\ Len(csvResult.value) = 2
    /\ races = <<csvResult.value[2], csvResult.value[1]>>
    /\ \A k \in 1..Len(initialRaces) : races[1].id # initialRaces[k].id

====
